---- MODULE Spec2Model ----
(***************************************************************************)
(* bun-plugin-strip: a Bun plugin that strips debug calls and debugger     *)
(* statements at build time.  The repository holds two variants of the     *)
(* plugin, src/index.ts and unnamed/part_000; both are modelled, and the    *)
(* variable `variant` says which one a behaviour runs.                      *)
(*                                                                         *)
(* Strings are TLA+ strings read character by character (Len, SubSeq).     *)
(* A file's text is identified with the syntax tree that the TypeScript    *)
(* parser builds from it; nodes are records [kind, text, kids].            *)
(* Glob patterns are restricted to literal characters, "/", "*" and "**";  *)
(* the pattern sets below contain no "!", "#", "?", "[", "{" or "\".        *)
(* The debug() log output and the `verbose` flag are not modelled.         *)
(***************************************************************************)
EXTENDS Integers, Sequences, FiniteSets, TLC

VARIABLES variant, userConfig, pc, plugin, load, everParsed, rw

vars == <<variant, userConfig, pc, plugin, load, everParsed, rw>>

INDEX == "src/index.ts"
PART0 == "unnamed/part_000"
Variants == {INDEX, PART0}

-----------------------------------------------------------------------------
(* JavaScript values of the option fields                                   *)

Undefined == [t |-> "undefined"]
Null == [t |-> "null"]
Str(s) == [t |-> "string", s |-> s]
Arr(a) == [t |-> "array", a |-> a]
Bool(b) == [t |-> "boolean", b |-> b]

\* x ?? d
Coalesce(x, d) == IF x.t \in {"undefined", "null"} THEN d ELSE x

\* x.length of a string or an array
Length(x) == IF x.t = "string" THEN Len(x.s) ELSE Len(x.a)

Char(s, i) == SubSeq(s, i, i)

\* [...x]: an array spreads to itself, a string to its characters
Spread(x) ==
  IF x.t = "string" THEN [i \in 1..Len(x.s) |-> Char(x.s, i)] ELSE x.a

\* [x].flat(): a string becomes a one-element array, an array stays
Flat1(x) == IF x.t = "string" THEN <<x.s>> ELSE x.a

\* s.includes(sub)
Includes(s, sub) ==
  \E i \in 1..(Len(s) + 1) :
    i + Len(sub) - 1 <= Len(s) /\ SubSeq(s, i, i + Len(sub) - 1) = sub

-----------------------------------------------------------------------------
(* minimatch (library), default options, on the pattern fragment above      *)

RECURSIVE slashSplitFrom(_, _, _)
slashSplitFrom(s, i, cur) ==
  IF i > Len(s) THEN <<cur>>
  ELSE IF Char(s, i) = "/"
       THEN IF i > 1 /\ Char(s, i - 1) = "/"
            THEN slashSplitFrom(s, i + 1, cur)
            ELSE <<cur>> \o slashSplitFrom(s, i + 1, "")
       ELSE slashSplitFrom(s, i + 1, cur \o Char(s, i))

\* s.split(/\/+/)
slashSplit(s) == slashSplitFrom(s, 1, "")

hasMagic(p) == \E i \in 1..Len(p) : Char(p, i) = "*"
onlyStars(p) == Len(p) > 0 /\ \A i \in 1..Len(p) : Char(p, i) = "*"
startsWithDot(f) == Len(f) > 0 /\ Char(f, 1) = "."

RECURSIVE starMatch(_, _, _, _)
starMatch(f, i, p, j) ==
  IF j > Len(p) THEN i > Len(f)
  ELSE IF Char(p, j) = "*"
       THEN \/ starMatch(f, i, p, j + 1)
            \/ (i <= Len(f) /\ Char(f, i) # "/" /\ starMatch(f, i + 1, p, j))
       ELSE i <= Len(f) /\ Char(f, i) = Char(p, j) /\ starMatch(f, i + 1, p, j + 1)

\* one path segment against one pattern segment that is not "**"
segmentMatch(f, p) ==
  IF ~hasMagic(p) THEN f = p
  ELSE /\ IF startsWithDot(p) THEN f \notin {".", ".."} ELSE ~startsWithDot(f)
       /\ IF onlyStars(p) THEN Len(f) > 0 ELSE starMatch(f, 1, p, 1)

dotSegment(f) == f \in {".", ".."} \/ startsWithDot(f)

RECURSIVE matchOne(_, _, _, _)
matchOne(file, fi, pattern, pi) ==
  IF fi <= Len(file) /\ pi <= Len(pattern)
  THEN IF pattern[pi] = "**"
       THEN IF pi = Len(pattern)
            THEN \A k \in fi..Len(file) : ~dotSegment(file[k])
            ELSE \E fr \in fi..Len(file) :
                   /\ \A k \in fi..(fr - 1) : ~dotSegment(file[k])
                   /\ matchOne(file, fr, pattern, pi + 1)
       ELSE segmentMatch(file[fi], pattern[pi]) /\ matchOne(file, fi + 1, pattern, pi + 1)
  ELSE IF fi > Len(file) /\ pi > Len(pattern) THEN TRUE
  ELSE IF fi > Len(file) THEN FALSE
  ELSE fi = Len(file) /\ file[fi] = ""

\* minimatch(f, pattern)
minimatch(f, pattern) ==
  IF pattern = "" THEN f = ""
  ELSE matchOne(slashSplit(f), 1, slashSplit(pattern), 1)

\* (minimatch.makeRe(pattern) as RegExp).source, used as one alternative of a
\* RegExp: makeRe("") is false, whose .source is undefined and concatenates as
\* the text "undefined", an unanchored literal
sourceTest(pattern, s) ==
  IF pattern = "" THEN Includes(s, "undefined") ELSE minimatch(s, pattern)

\* new RegExp(sources.join("|")).test(s); the empty join is the empty regular
\* expression, which matches every string
RegExpTest(sources, s) ==
  IF Len(sources) = 0 THEN TRUE
  ELSE \E i \in 1..Len(sources) : sourceTest(sources[i], s)

-----------------------------------------------------------------------------
(* Syntax trees (TypeScript compiler API)                                   *)

Node(kind, text, kids) == [kind |-> kind, text |-> text, kids |-> kids]

Identifier(t) == Node("Identifier", t, <<>>)
PrivateIdentifier(t) == Node("PrivateIdentifier", t, <<>>)
StringLiteral(t) == Node("StringLiteral", t, <<>>)
NumericLiteral(t) == Node("NumericLiteral", t, <<>>)
PropertyAccessExpression(e, name) == Node("PropertyAccessExpression", "", <<e, name>>)
ElementAccessExpression(e, arg) == Node("ElementAccessExpression", "", <<e, arg>>)
\* kids[1] is node.expression (the callee), the rest are node.arguments
CallExpression(e, args) == Node("CallExpression", "", <<e>> \o args)
FunctionExpression(body) == Node("FunctionExpression", "", <<body>>)
VoidExpression(e) == Node("VoidExpression", "", <<e>>)
ExpressionStatement(e) == Node("ExpressionStatement", "", <<e>>)
ReturnStatement(e) == Node("ReturnStatement", "", <<e>>)
IfStatement(c, then) == Node("IfStatement", "", <<c, then>>)
Block(stmts) == Node("Block", "", stmts)
DebuggerStatement == Node("DebuggerStatement", "", <<>>)
EmptyStatement == Node("EmptyStatement", "", <<>>)
SourceFile(stmts) == Node("SourceFile", "", stmts)

isCallExpression(n) == n.kind = "CallExpression"
isPropertyAccessExpression(n) == n.kind = "PropertyAccessExpression"
isIdentifier(n) == n.kind = "Identifier"
isDebuggerStatement(n) == n.kind = "DebuggerStatement"

\* ctx.factory.createVoidZero(): void 0
createVoidZero == VoidExpression(NumericLiteral("0"))
createEmptyStatement == EmptyStatement

-----------------------------------------------------------------------------
(* shouldStrip, one definition per variant                                  *)

\* `${baseName}.${methodName}`
fullName(expr) == expr.kids[1].text \o "." \o expr.kids[2].text

simpleDotted(expr) ==
  /\ isPropertyAccessExpression(expr)
  /\ isIdentifier(expr.kids[1])
  /\ isIdentifier(expr.kids[2])

\* src/index.ts: the loop body ends in `break`, so only the first element of
\* config.functions is ever tested
shouldStrip(config, expr) ==
  IF ~isPropertyAccessExpression(expr) THEN FALSE
  ELSE IF ~isIdentifier(expr.kids[1]) \/ ~isIdentifier(expr.kids[2]) THEN FALSE
  ELSE LET fs == Spread(config.functions) IN
       Len(fs) > 0 /\ minimatch(fullName(expr), fs[1])

\* unnamed/part_000: every element of [...config.functions] is tested
shouldStrip_part0(config, expr) ==
  IF config.functions.t = "null" THEN FALSE
  ELSE IF ~isPropertyAccessExpression(expr) THEN FALSE
  ELSE IF ~isIdentifier(expr.kids[1]) \/ ~isIdentifier(expr.kids[2]) THEN FALSE
  ELSE LET fs == Spread(config.functions) IN
       \E i \in 1..Len(fs) : minimatch(fullName(expr), fs[i])

shouldStripIn(v, config, expr) ==
  IF v = INDEX THEN shouldStrip(config, expr) ELSE shouldStrip_part0(config, expr)

-----------------------------------------------------------------------------
(* makeTransformer: the walk over the tree, the same text in both variants  *)

RECURSIVE walk(_, _, _)

\* ts.visitEachChild(node, walk, ctx)
visitEachChild(v, config, node) ==
  [node EXCEPT !.kids = [i \in 1..Len(node.kids) |-> walk(v, config, node.kids[i])]]

\* `||` for `&&` in the call branch: every call on a property access is stripped
walk_orCallee(v, config, node) ==
  IF isCallExpression(node)
  THEN IF isPropertyAccessExpression(node.kids[1]) \/ shouldStripIn(v, config, node.kids[1])
       THEN createVoidZero
       ELSE visitEachChild(v, config, node)
  ELSE IF isDebuggerStatement(node) /\ config.stripDebugger
       THEN createEmptyStatement
       ELSE visitEachChild(v, config, node)

\* the debugger branch without `&& config.stripDebugger`
walk_alwaysDebugger(v, config, node) ==
  IF isCallExpression(node)
  THEN IF isPropertyAccessExpression(node.kids[1]) /\ shouldStripIn(v, config, node.kids[1])
       THEN createVoidZero
       ELSE visitEachChild(v, config, node)
  ELSE IF isDebuggerStatement(node)
       THEN createEmptyStatement
       ELSE visitEachChild(v, config, node)

\* a call that is kept is returned as it is, its children unvisited
walk_noRecurseInCall(v, config, node) ==
  IF isCallExpression(node)
  THEN IF isPropertyAccessExpression(node.kids[1]) /\ shouldStripIn(v, config, node.kids[1])
       THEN createVoidZero
       ELSE node
  ELSE IF isDebuggerStatement(node) /\ config.stripDebugger
       THEN createEmptyStatement
       ELSE visitEachChild(v, config, node)

walk(v, config, node) ==
  IF isCallExpression(node)
  THEN IF isPropertyAccessExpression(node.kids[1]) /\ shouldStripIn(v, config, node.kids[1])
       THEN createVoidZero
       ELSE visitEachChild(v, config, node)
  ELSE IF isDebuggerStatement(node) /\ config.stripDebugger
       THEN createEmptyStatement
       ELSE visitEachChild(v, config, node)

\* ts.visitNode(source, walk)
makeTransformer(v, config, source) == walk(v, config, source)

\* stripFunctions: parse, transform, print; the text is its tree
stripFunctions(v, config, path, source) == makeTransformer(v, config, source)

-----------------------------------------------------------------------------
(* getCompilerOptions, the same text in both variants                       *)

\* what is found at tsconfigPath
TsconfigFiles ==
  { "missing",            \* readFileSync throws
    "unreadable",         \* readFileSync throws
    "malformed_noconfig", \* parseConfigFileTextToJson returns no config
    "malformed_empty",    \* parseConfigFileTextToJson returns config {} and an error
    "noCompilerOptions",  \* a JSON object without compilerOptions
    "target" }            \* compilerOptions with a target

\* ts.getDefaultCompilerOptions()
DefaultCompilerOptions == [origin |-> "default", target |-> "undefined"]

\* the body of the try block: threw says whether an exception left it
tryCompilerOptions(file) ==
  IF file \in {"missing", "unreadable"}
  THEN [threw |-> TRUE, options |-> Undefined]        \* readFileSync
  ELSE IF file = "malformed_noconfig"
  THEN [threw |-> TRUE, options |-> Undefined]        \* result.config is undefined
  ELSE [threw |-> FALSE,
        options |-> [origin |-> "tsconfig",
                     target |-> IF file = "target" THEN "ES2020" ELSE "undefined"]]

\* without the catch clause
getCompilerOptions_nocatch(file) == tryCompilerOptions(file)

getCompilerOptions(file) ==
  LET r == tryCompilerOptions(file) IN
  IF r.threw THEN [threw |-> FALSE, options |-> DefaultCompilerOptions] ELSE r

-----------------------------------------------------------------------------
(* Strip: the plugin constructor, one definition per variant                *)

\* src/index.ts makeRegex: the sources of the alternation
makeRegex(pattern, nullMatchesAll) ==
  LET def == IF nullMatchesAll THEN "*" ELSE "" IN
  Flat1(Coalesce(pattern, Str(def)))

makeFileFilter(include, exclude) ==
  [include |-> makeRegex(include, TRUE), exclude |-> makeRegex(exclude, FALSE)]

DefaultFunctions == Arr(<<"console.*", "assert.*">>)

\* functions.length === 0 && stripDebugger: the negation is lost
nothingToStrip_lostNot(functions, stripDebugger) ==
  Length(functions) = 0 /\ stripDebugger

nothingToStrip(functions, stripDebugger) ==
  Length(functions) = 0 /\ ~stripDebugger

\* src/index.ts
Strip(config) ==
  LET ff == makeFileFilter(Coalesce(config.include, Null),
                           Coalesce(config.exclude, Arr(<<"*node_modules*">>)))
      functions == Coalesce(config.functions, DefaultFunctions)
      stripDebugger == Coalesce(config.debugger, Bool(TRUE)).b
      co == getCompilerOptions(config.tsconfig)
  IN IF co.threw THEN [ok |-> FALSE]
     ELSE [ok |-> TRUE,
           filter |-> ff.include,
           exclude |-> ff.exclude,
           functions |-> functions,
           stripDebugger |-> stripDebugger,
           compilerOptions |-> co.options,
           nothingToStrip |-> nothingToStrip(functions, stripDebugger)]

\* unnamed/part_000
Strip_part0(config) ==
  LET include == Spread(Coalesce(config.include, Arr(<<"**">>)))
      exclude == Spread(Coalesce(config.exclude, Arr(<<"**node_modules**">>)))
      functions == Coalesce(config.functions, DefaultFunctions)
      stripDebugger == Coalesce(config.debugger, Bool(TRUE)).b
      co == getCompilerOptions(config.tsconfig)
  IN IF co.threw THEN [ok |-> FALSE]
     ELSE [ok |-> TRUE,
           filter |-> include,
           exclude |-> exclude,
           functions |-> functions,
           stripDebugger |-> stripDebugger,
           compilerOptions |-> co.options,
           nothingToStrip |-> nothingToStrip(functions, stripDebugger)]

StripIn(v, config) == IF v = INDEX THEN Strip(config) ELSE Strip_part0(config)

\* build.onLoad({ filter }, callback): the host calls back when filter.test(path)
filterTest(p, path) == RegExpTest(p.filter, path)

\* exclude.some(...) negated: the early return is taken for the wrong files
excludeTest_negated(v, p, path) ==
  IF v = INDEX THEN ~RegExpTest(p.exclude, path)
  ELSE ~(\E i \in 1..Len(p.exclude) : minimatch(path, p.exclude[i]))

\* src/index.ts: exclude.test(path)
\* unnamed/part_000: exclude.some((pattern) => minimatch(path, pattern))
excludeTest(v, p, path) ==
  IF v = INDEX THEN RegExpTest(p.exclude, path)
  ELSE \E i \in 1..Len(p.exclude) : minimatch(path, p.exclude[i])

\* the StripConfig the callback builds
StripConfigOf(p) ==
  [stripDebugger |-> p.stripDebugger,
   functions |-> p.functions,
   compilerOptions |-> p.compilerOptions]

-----------------------------------------------------------------------------
(* Inputs                                                                   *)

\* nesting depth of the generated syntax trees
MaxDepth == 2

IncludeOptions == {Undefined, Arr(<<"**/*.ts">>), Str("**/*.ts")}
ExcludeOptions == {Undefined, Arr(<<>>), Arr(<<"**/*.test.ts">>), Str("**/*.test.ts")}
DebuggerOptions == {Undefined, Bool(TRUE), Bool(FALSE)}

\* Config.functions is string[] in src/index.ts and FilterPattern in part_000
FunctionsOptions(v) ==
  {Undefined, Null, Arr(<<>>), Arr(<<"console.*", "myModule.foo">>)}
    \cup (IF v = PART0 THEN {Str("console.*")} ELSE {})

UserConfigs(v) ==
  [include : IncludeOptions, exclude : ExcludeOptions, debugger : DebuggerOptions,
   functions : FunctionsOptions(v), tsconfig : TsconfigFiles]

Paths == {"src/x.ts", "src/node_modules/x.ts", "x.ts", "node_modules", "src/x.test.ts"}

consoleLog == PropertyAccessExpression(Identifier("console"), Identifier("log"))

\* if (x) { console.log("hi"); debugger; return x; }
ExampleSource ==
  SourceFile(<<
    IfStatement(Identifier("x"),
      Block(<<ExpressionStatement(CallExpression(consoleLog, <<StringLiteral("hi")>>)),
              DebuggerStatement,
              ReturnStatement(Identifier("x"))>>))>>)

\* assert.ok(x); myModule.foo(); foo.bar(); debugger;
SecondSource ==
  SourceFile(<<
    ExpressionStatement(CallExpression(
      PropertyAccessExpression(Identifier("assert"), Identifier("ok")), <<Identifier("x")>>)),
    ExpressionStatement(CallExpression(
      PropertyAccessExpression(Identifier("myModule"), Identifier("foo")), <<>>)),
    ExpressionStatement(CallExpression(
      PropertyAccessExpression(Identifier("foo"), Identifier("bar")), <<>>)),
    DebuggerStatement>>)

\* return x;
PlainSource == SourceFile(<<ReturnStatement(Identifier("x"))>>)

Sources == {ExampleSource, SecondSource, PlainSource}

BaseNames == {"console", "a"}
MemberNames == {"log", "b"}
Callees == {consoleLog, Identifier("a")}

RECURSIVE Exprs(_), Stmts(_)

Exprs(d) ==
  IF d = 0
  THEN {Identifier(n) : n \in BaseNames}
         \cup {PropertyAccessExpression(Identifier(n), Identifier(m)) :
                 n \in BaseNames, m \in MemberNames}
  ELSE LET E == Exprs(d - 1) IN
       E \cup {PropertyAccessExpression(e, Identifier(m)) : e \in E, m \in MemberNames}
         \cup {PropertyAccessExpression(e, PrivateIdentifier("#p")) : e \in E}
         \cup {ElementAccessExpression(e, Identifier("b")) : e \in E}
         \cup {CallExpression(e, <<>>) : e \in E}
         \cup {CallExpression(c, <<e>>) : c \in Callees, e \in E}
         \cup {FunctionExpression(Block(<<st>>)) : st \in Stmts(d - 1)}

Stmts(d) ==
  {DebuggerStatement} \cup {ExpressionStatement(e) : e \in Exprs(d)}
    \cup (IF d = 0 THEN {}
          ELSE LET S == Stmts(d - 1) IN
               {Block(<<st, DebuggerStatement>>) : st \in S}
                 \cup {IfStatement(Identifier("x"), st) : st \in S})

Trees == {SourceFile(<<st>>) : st \in Stmts(MaxDepth)} \cup {ExampleSource}

FunctionLists ==
  {Arr(<<>>), DefaultFunctions, Arr(<<"console.*", "a.*">>),
   Arr(<<"a.b", "console.log">>), Arr(<<"a.*">>)}

StripConfigs ==
  [stripDebugger : BOOLEAN, functions : FunctionLists,
   compilerOptions : {DefaultCompilerOptions}]

-----------------------------------------------------------------------------
(* The plugin in a build: construction, then the host's file loads          *)

NoPlugin == [ok |-> FALSE]
NoLoad == [path |-> "", contents |-> Undefined, log |-> <<>>, returned |-> Undefined]
IdleRewrite == [stage |-> "idle"]

Init ==
  /\ variant \in Variants
  /\ userConfig \in UserConfigs(variant)
  /\ pc = "new"
  /\ plugin = NoPlugin
  /\ load = NoLoad
  /\ everParsed = FALSE
  /\ rw = IdleRewrite

\* Strip(config) is called
Construct ==
  /\ pc = "new"
  /\ plugin' = StripIn(variant, userConfig)
  /\ pc' = IF plugin'.ok THEN "ready" ELSE "raised"
  /\ UNCHANGED <<variant, userConfig, load, everParsed, rw>>

\* the host loads a file the filter does not match: the callback is not called
onLoad_unmatched ==
  /\ pc = "ready"
  /\ \E path \in Paths :
       /\ ~filterTest(plugin, path)
       /\ load' = [path |-> path, contents |-> Undefined, log |-> <<>>,
                   returned |-> [t |-> "not called"]]
  /\ UNCHANGED <<variant, userConfig, pc, plugin, everParsed, rw>>

\* callback = async ({}) => undefined
callback_nothingToStrip ==
  /\ pc = "ready"
  /\ plugin.nothingToStrip
  /\ \E path \in Paths :
       /\ filterTest(plugin, path)
       /\ load' = [path |-> path, contents |-> Undefined, log |-> <<>>,
                   returned |-> Undefined]
  /\ UNCHANGED <<variant, userConfig, pc, plugin, everParsed, rw>>

\* the callback up to its await: Bun.file(path).text() is pending
callback_read ==
  /\ pc = "ready"
  /\ ~plugin.nothingToStrip
  /\ \E path \in Paths :
       /\ filterTest(plugin, path)
       /\ load' = [path |-> path, contents |-> Undefined, log |-> <<"read">>,
                   returned |-> [t |-> "pending"]]
  /\ pc' = "reading"
  /\ UNCHANGED <<variant, userConfig, plugin, everParsed, rw>>

\* the callback after its await, to its return
callback_resume ==
  /\ pc = "reading"
  /\ \E contents \in Sources :
       IF excludeTest(variant, plugin, load.path)
       THEN /\ load' = [load EXCEPT !.contents = contents,
                                    !.log = @ \o <<"exclude">>,
                                    !.returned = [t |-> "contents", contents |-> contents]]
            /\ UNCHANGED everParsed
       ELSE /\ load' = [load EXCEPT
                          !.contents = contents,
                          !.log = @ \o <<"exclude", "parse", "transform", "print">>,
                          !.returned =
                            [t |-> "contents",
                             contents |-> stripFunctions(variant, StripConfigOf(plugin),
                                                         load.path, contents)]]
            /\ everParsed' = TRUE
  /\ pc' = "ready"
  /\ UNCHANGED <<variant, userConfig, plugin, rw>>

Next ==
  \/ Construct
  \/ onLoad_unmatched
  \/ callback_nothingToStrip
  \/ callback_read
  \/ callback_resume

Spec == Init /\ [][Next]_vars

-----------------------------------------------------------------------------
(* The rewriter alone: makeTransformer applied to a tree, then to its output *)

InitRewrite ==
  /\ variant \in Variants
  /\ userConfig = Undefined
  /\ pc = "rewrite"
  /\ plugin = NoPlugin
  /\ load = NoLoad
  /\ everParsed = FALSE
  /\ \E c \in StripConfigs, t \in Trees :
       rw = [stage |-> "input", config |-> c, tree |-> t, once |-> t, twice |-> t]

RewriteOnce ==
  /\ rw.stage = "input"
  /\ rw' = [rw EXCEPT !.stage = "once",
                      !.once = makeTransformer(variant, rw.config, rw.tree)]
  /\ UNCHANGED <<variant, userConfig, pc, plugin, load, everParsed>>

RewriteTwice ==
  /\ rw.stage = "once"
  /\ rw' = [rw EXCEPT !.stage = "twice",
                      !.twice = makeTransformer(variant, rw.config, rw.once)]
  /\ UNCHANGED <<variant, userConfig, pc, plugin, load, everParsed>>

NextRewrite == RewriteOnce \/ RewriteTwice

SpecRewrite == InitRewrite /\ [][NextRewrite]_vars

-----------------------------------------------------------------------------
(* Positions in a tree, for the properties below                            *)

RECURSIVE PathsOf(_), NodeAt(_, _)

\* every position of a tree, as the sequence of child indexes leading to it
PathsOf(n) ==
  {<<>>} \cup UNION {{<<i>> \o q : q \in PathsOf(n.kids[i])} : i \in 1..Len(n.kids)}

Missing == Node("(none)", "", <<>>)

NodeAt(n, p) ==
  IF p = <<>> THEN n
  ELSE IF Head(p) \in 1..Len(n.kids) THEN NodeAt(n.kids[Head(p)], Tail(p))
  ELSE Missing

\* no proper ancestor of position p was replaced: along p, the output has the
\* kinds of the input
Live(in, out, p) ==
  \A k \in 0..(Len(p) - 1) :
    NodeAt(out, SubSeq(p, 1, k)).kind = NodeAt(in, SubSeq(p, 1, k)).kind

matchesAny(name, patterns) == \E i \in 1..Len(patterns) : minimatch(name, patterns[i])

IsStatement(n) ==
  n.kind \in {"ExpressionStatement", "ReturnStatement", "IfStatement", "Block",
              "DebuggerStatement", "EmptyStatement"}

Rewritten == rw.stage \in {"once", "twice"}

\* a file load has ended: the host kept the file to itself, or the callback returned
Finished == pc = "ready" /\ load.path # ""
CallbackReturned == Finished /\ load.returned.t # "not called"
Transformed == \E i \in 1..Len(load.log) : load.log[i] = "transform"

hasSegment(path, seg) == \E i \in 1..Len(slashSplit(path)) : slashSplit(path)[i] = seg

\* the resolved configuration leaves nothing to strip
NothingConfigured == Length(plugin.functions) = 0 /\ ~plugin.stripDebugger

\* the path matches the exclude set the plugin holds
ExcludeSetMatches(path) ==
  IF variant = INDEX THEN RegExpTest(plugin.exclude, path)
  ELSE matchesAny(path, plugin.exclude)


-----------------------------------------------------------------------------
(* Properties of the rewriter, under SpecRewrite                            *)

\* C1: a call on identifier.identifier is replaced by void 0 exactly when its
\* dotted name matches at least one pattern of a non-empty functions list,
\* whatever the position of that pattern in the list.
C1_MatchAny ==
  Rewritten =>
    \A p \in PathsOf(rw.tree) :
      LET n == NodeAt(rw.tree, p) IN
      (/\ isCallExpression(n)
       /\ simpleDotted(n.kids[1])
       /\ Len(rw.config.functions.a) > 0
       /\ Live(rw.tree, rw.once, p))
      => (NodeAt(rw.once, p) = createVoidZero
            <=> matchesAny(fullName(n.kids[1]), rw.config.functions.a))

\* C3 as stated: every call whose callee is not identifier.identifier is still
\* a call, at its position, in the output.
C3_EveryNonSimpleCallSurvives ==
  Rewritten =>
    \A p \in PathsOf(rw.tree) :
      LET n == NodeAt(rw.tree, p) IN
      (isCallExpression(n) /\ ~simpleDotted(n.kids[1]))
      => isCallExpression(NodeAt(rw.once, p))

\* C3, amended: a call whose callee is not identifier.identifier, and which
\* does not lie inside a stripped call, is never replaced: the output holds,
\* at its position, the same call with its children rewritten.
C3_NonSimpleCallSurvivesUnlessInsideStripped ==
  Rewritten =>
    \A p \in PathsOf(rw.tree) :
      LET n == NodeAt(rw.tree, p) IN
      (isCallExpression(n) /\ ~simpleDotted(n.kids[1]) /\ Live(rw.tree, rw.once, p))
      => /\ isCallExpression(NodeAt(rw.once, p))
         /\ Len(NodeAt(rw.once, p).kids) = Len(n.kids)
         /\ \A i \in 1..Len(n.kids) :
              NodeAt(rw.once, p).kids[i] = makeTransformer(variant, rw.config, n.kids[i])

\* a.b.log() or a.b.b() was rewritten under functions = ["a.*"] and is still a call
C3_Witness ==
  /\ rw.stage = "once"
  /\ rw.config.functions = Arr(<<"a.*">>)
  /\ \E p \in PathsOf(rw.tree) :
       LET n == NodeAt(rw.tree, p) IN
       /\ isCallExpression(n)
       /\ isPropertyAccessExpression(n.kids[1])
       /\ n.kids[1].kids[1] = PropertyAccessExpression(Identifier("a"), Identifier("b"))
       /\ isCallExpression(NodeAt(rw.once, p))

ExampleStripped ==
  SourceFile(<<
    IfStatement(Identifier("x"),
      Block(<<ExpressionStatement(createVoidZero),
              EmptyStatement,
              ReturnStatement(Identifier("x"))>>))>>)

\* C7: a debugger statement outside every stripped call becomes an empty
\* statement when stripDebugger is true and stays a debugger statement when it
\* is false; every other statement outside a stripped call keeps its kind and
\* its number of children, in order; the example of the specification comes
\* out as `if (x) { void 0; ; return x; }` under the defaults.
C7_DebuggerStatements ==
  Rewritten =>
    /\ \A p \in PathsOf(rw.tree) :
         LET n == NodeAt(rw.tree, p)
             m == NodeAt(rw.once, p)
         IN Live(rw.tree, rw.once, p) =>
              /\ isDebuggerStatement(n) =>
                   m = IF rw.config.stripDebugger THEN EmptyStatement ELSE DebuggerStatement
              /\ (IsStatement(n) /\ ~isDebuggerStatement(n)) =>
                   (m.kind = n.kind /\ Len(m.kids) = Len(n.kids))
    /\ (rw.tree = ExampleSource /\ rw.config.stripDebugger
          /\ rw.config.functions = DefaultFunctions)
       => rw.once = ExampleStripped

\* the example was rewritten under the defaults
C7_Witness ==
  /\ rw.stage = "once"
  /\ rw.tree = ExampleSource
  /\ rw.config.stripDebugger
  /\ rw.config.functions = DefaultFunctions
  /\ rw.once = ExampleStripped

\* no node of t is a call the matcher strips or, with stripDebugger, a debugger
NoStrippable(t) ==
  \A p \in PathsOf(t) :
    LET n == NodeAt(t, p) IN
    /\ ~(isCallExpression(n) /\ shouldStripIn(variant, rw.config, n.kids[1]))
    /\ rw.config.stripDebugger => ~isDebuggerStatement(n)

\* C8: rewriting the output of a rewrite changes nothing, and that output
\* holds no call the matcher would strip and, with stripDebugger, no debugger
\* statement.
C8_Idempotent ==
  (rw.stage = "twice") => (rw.twice = rw.once /\ NoStrippable(rw.once))

\* a tree the first rewrite changed was rewritten a second time
C8_Witness ==
  /\ rw.stage = "twice"
  /\ rw.once # rw.tree
  /\ ~NoStrippable(rw.tree)
  /\ rw.twice = rw.once

-----------------------------------------------------------------------------
(* Properties of the plugin in a build, under Spec                          *)

\* C2: with functions = null passed to Strip, no call expression of any file
\* is replaced; only debugger statements may be.
C2_NullDisablesFunctions ==
  (userConfig.functions = Null /\ Finished /\ Transformed) =>
    \A p \in PathsOf(load.contents) :
      (isCallExpression(NodeAt(load.contents, p))
         /\ Live(load.contents, load.returned.contents, p))
      => isCallExpression(NodeAt(load.returned.contents, p))

\* C4: with include and exclude left to their defaults, a path with a
\* node_modules segment is never rewritten and every other path is.
C4_DefaultFilter ==
  (userConfig.include = Undefined /\ userConfig.exclude = Undefined
     /\ Finished /\ ~NothingConfigured) =>
    IF hasSegment(load.path, "node_modules") THEN ~Transformed ELSE Transformed

\* C5: with an empty functions list and debugger stripping off, the callback
\* returns undefined for every file, and no file is ever read, parsed,
\* transformed or printed in the build.
C5_NothingToStripPassesThrough ==
  (pc \in {"ready", "reading"} /\ NothingConfigured) =>
    /\ ~everParsed
    /\ pc # "reading"
    /\ load.log = <<>>
    /\ CallbackReturned => load.returned = Undefined

\* the callback returned for a file under such a configuration
C5_Witness ==
  /\ CallbackReturned
  /\ NothingConfigured
  /\ userConfig.functions = Arr(<<>>)
  /\ load.returned = Undefined

C9_CompilerOptionsNeverRaise ==
  /\ pc # "raised"
  /\ pc \in {"ready", "reading"} =>
       /\ plugin.ok
       /\ plugin.compilerOptions.origin \in {"default", "tsconfig"}
       /\ userConfig.tsconfig \in {"missing", "unreadable", "malformed_noconfig"}
            => plugin.compilerOptions = DefaultCompilerOptions

\* the plugin was constructed although the config file is missing
C9_Witness ==
  /\ pc = "ready"
  /\ userConfig.tsconfig = "missing"
  /\ plugin.ok
  /\ plugin.compilerOptions = DefaultCompilerOptions

\* the pattern as a one-element list
AsList(x) == IF x.t = "string" THEN Arr(<<x.s>>) ELSE x

DottedNames ==
  {PropertyAccessExpression(Identifier(a), Identifier(b)) :
     a \in {"console", "foo"}, b \in {"log", "bar"}}

\* C10: a pattern given as the string p decides every path and every dotted
\* name as the one-element list [p] does, for include, exclude and functions.
C10_StringIsOnePattern ==
  (pc = "ready") =>
    LET alt == StripIn(variant, [userConfig EXCEPT !.include = AsList(@),
                                                   !.exclude = AsList(@),
                                                   !.functions = AsList(@)])
    IN /\ \A path \in Paths :
            /\ filterTest(plugin, path) = filterTest(alt, path)
            /\ excludeTest(variant, plugin, path) = excludeTest(variant, alt, path)
       /\ \A e \in DottedNames :
            shouldStripIn(variant, StripConfigOf(plugin), e)
              = shouldStripIn(variant, StripConfigOf(alt), e)

====
